---- MODULE Spec2Model ----
(***************************************************************************)
(* Model of backend/backend.go: NewTagPair, CreateTag, the concurrent      *)
(* CreateTagsFromPlain (one goroutine and one unbuffered channel per       *)
(* missing plain tag, drained in launch order) and PopulateRowBeforeSave.  *)
(***************************************************************************)
EXTENDS Integers, Sequences, FiniteSets, TLC

\* ------------------------------------------------------------------ bounds
MaxPlainTags == 2      \* longest row.plainTags explored
MaxKnown == 1          \* longest knownPairs argument explored
MaxDraws == 2          \* distinct outputs of the random-string source explored
MaxNonce == 1          \* distinct outputs of the nonce source explored

\* plain tags the caller may put on a row
Tags == {"work", "2015"}

\* --------------------------------------------------------- program constants
RANDOM_TAG_ALPHABET ==
    << "a","b","c","d","e","f","g","h","i","j","k","l","m",
       "n","o","p","q","r","s","t","u","v","w","x","y","z",
       "0","1","2","3","4","5","6","7","8","9" >>

RANDOM_TAG_LENGTH == 9

\* the nil *types.TagPair sent on a channel by a failed unit
NilPair == [nil |-> TRUE]

\* bk.Key(): the backend's 32-byte key
Key == "key"

\* row.Encrypted of a row that has not been populated
NoData == << >>

\* ------------------------------------------------------------------ helpers
\* fun.RandomString(alphabet, length): `length` symbols of the alphabet;
\* draw d selects which of the explored outputs the source produced
RandomString_Short(alphabet, length, d) ==
    [i \in 1..(length - 1) |-> alphabet[((d * i) % Len(alphabet)) + 1]]

RandomString(alphabet, length, d) ==
    [i \in 1..length |-> alphabet[((d * i) % Len(alphabet)) + 1]]

\* cryptag.Encrypt(plaintext, nonce, key): symbolic ciphertext
Encrypt(data, nonce, key) == << "enc", data, nonce, key >>

\* types.NewTagPair(plainEnc, rand, nonce, plaintag)
TypesNewTagPair(plainEnc, rand, nonce, plaintag) ==
    [plainEnc |-> plainEnc, Random |-> rand, nonce |-> nonce, plain |-> plaintag]

\* pairs.AllPlain(): the plaintext of every pair, in order
AllPlain(ps) == [i \in 1..Len(ps) |-> ps[i].plain]

\* fun.SliceContains(slice, x)
SliceContains_Never(slice, x) == FALSE

SliceContains(slice, x) == \E i \in 1..Len(slice) : slice[i] = x

\* the argument bound to the goroutine's `plain` parameter at launch
UnitArg_LoopVar(plaintags, i) == plaintags[Len(plaintags)]

UnitArg(plaintags, i) == plaintags[i]

\* CreateTag's result after bk.SaveTagPair returned: the pair, or nil on error
CreateTagResult_IgnoreErr(pair, saveFailed) == pair

CreateTagResult(pair, saveFailed) == IF saveFailed THEN NilPair ELSE pair

\* the aggregator's loop body: keep p unless it is the nil sentinel
Aggregate_Prepend(acc, p) == IF p /= NilPair THEN << p >> \o acc ELSE acc

Aggregate_NoNilCheck(acc, p) == Append(acc, p)

Aggregate(acc, p) == IF p /= NilPair THEN Append(acc, p) ELSE acc

\* the first result of PopulateRowBeforeSave: `return newPairs, ...` on the
\* paths that return an error (failed) and on the success path alike
ReturnedPairs_NilOnError(np, failed) == IF failed THEN << >> ELSE np

ReturnedPairs(np, failed) == np

\* inner loop of PopulateRowBeforeSave over allTagPairs, from index i:
\* a match breaks, the last index without a match returns the error, and an
\* empty allTagPairs runs no iteration at all
RECURSIVE ScanPairs_LastMatch(_, _, _)
ScanPairs_LastMatch(plain, all, i) ==
    IF i > Len(all) THEN [kind |-> "none", Random |-> << >>]
    ELSE LET rest == ScanPairs_LastMatch(plain, all, i + 1) IN
         IF rest.kind = "found" THEN rest
         ELSE IF plain = all[i].plain THEN [kind |-> "found", Random |-> all[i].Random]
         ELSE IF i = Len(all) THEN [kind |-> "missing", Random |-> << >>]
         ELSE rest

RECURSIVE ScanPairs(_, _, _)
ScanPairs(plain, all, i) ==
    IF i > Len(all) THEN [kind |-> "none", Random |-> << >>]
    ELSE IF plain = all[i].plain THEN [kind |-> "found", Random |-> all[i].Random]
    ELSE IF i = Len(all) THEN [kind |-> "missing", Random |-> << >>]
    ELSE ScanPairs(plain, all, i + 1)

\* outer loop of PopulateRowBeforeSave over row.PlainTags(), from index k
RECURSIVE ResolveTags(_, _, _, _)
ResolveTags(plainTags, all, k, randtags) ==
    IF k > Len(plainTags) THEN [err |-> FALSE, tag |-> "", randtags |-> randtags]
    ELSE LET r == ScanPairs(plainTags[k], all, 1) IN
         IF r.kind = "missing"
         THEN [err |-> TRUE, tag |-> plainTags[k], randtags |-> randtags]
         ELSE ResolveTags(plainTags, all, k + 1,
                          IF r.kind = "found" THEN Append(randtags, r.Random)
                                              ELSE randtags)

\* ------------------------------------------------------------------- inputs
RECURSIVE SeqsUpTo(_, _)
SeqsUpTo(S, n) ==
    IF n = 0 THEN { << >> }
    ELSE LET shorter == SeqsUpTo(S, n - 1) IN
         shorter \cup { Append(s, x) : s \in { t \in shorter : Len(t) = n - 1 }, x \in S }

\* pairs a caller may already hold: built as NewTagPair builds them, one per
\* plain tag, with the random tag of the first draw
KnownPairValues ==
    { TypesNewTagPair(Encrypt(t, 1, Key),
                      RandomString(RANDOM_TAG_ALPHABET, RANDOM_TAG_LENGTH, 1), 1, t) :
          t \in Tags }

\* -------------------------------------------------------------------- state
VARIABLES
    call,       \* which call of PopulateRowBeforeSave is running (1 or 2)
    pairs,      \* the `pairs` argument (knownPairs)
    row,        \* the *types.Row argument
    entry,      \* row and backend size at entry of the running call
    pc,         \* position of the calling goroutine
    scan,       \* index of the first loop of CreateTagsFromPlain
    units,      \* launched goroutines, one per channel in chs, in launch order
    recv,       \* index i of the draining loop
    newPairs,   \* newPairs of CreateTagsFromPlain / PopulateRowBeforeSave
    err,        \* error returned by CreateTagsFromPlain
    retErr,     \* error returned by PopulateRowBeforeSave ("pending" before)
    retTag,     \* plain tag named by the missing-TagPair error
    retPairs,   \* newPairs as returned by PopulateRowBeforeSave
    saved       \* pairs the backend accepted through SaveTagPair, in order

vars == << call, pairs, row, entry, pc, scan, units, recv, newPairs, err,
           retErr, retTag, retPairs, saved >>

Init ==
    /\ call = 1
    /\ pairs \in SeqsUpTo(KnownPairValues, MaxKnown)
    /\ \E pt \in SeqsUpTo(Tags, MaxPlainTags) :
          row = [plainTags |-> pt, RandomTags |-> << >>, Encrypted |-> NoData,
                 decrypted |-> "payload", Nonce |-> 0]
    /\ entry = [RandomTags |-> << >>, Encrypted |-> NoData, saved |-> 0]
    /\ pc = "scan"
    /\ scan = 1
    /\ units = << >>
    /\ recv = 1
    /\ newPairs = << >>
    /\ err = "unset"
    /\ retErr = "pending"
    /\ retTag = ""
    /\ retPairs = << >>
    /\ saved = << >>

\* ------------------------------------------------- CreateTagsFromPlain: scan
\* one iteration of `for _, plain := range plaintags` that launches a unit
ScanLaunch ==
    /\ pc = "scan"
    /\ scan <= Len(row.plainTags)
    /\ ~SliceContains(AllPlain(pairs), row.plainTags[scan])
    /\ units' = Append(units, [plain |-> UnitArg(row.plainTags, scan),
                               pc |-> "start", pair |-> NilPair,
                               val |-> NilPair, err |-> ""])
    /\ scan' = scan + 1
    /\ UNCHANGED << call, pairs, row, entry, pc, recv, newPairs, err, retErr,
                    retTag, retPairs, saved >>

\* one iteration for a plain tag that already has a pair
ScanSkip ==
    /\ pc = "scan"
    /\ scan <= Len(row.plainTags)
    /\ SliceContains(AllPlain(pairs), row.plainTags[scan])
    /\ scan' = scan + 1
    /\ UNCHANGED << call, pairs, row, entry, pc, units, recv, newPairs, err,
                    retErr, retTag, retPairs, saved >>

\* the range loop is exhausted: go on to the draining loop
ScanExit ==
    /\ pc = "scan"
    /\ scan > Len(row.plainTags)
    /\ pc' = "drain"
    /\ UNCHANGED << call, pairs, row, entry, scan, units, recv, newPairs, err,
                    retErr, retTag, retPairs, saved >>

\* ------------------------------------------------------- the unit goroutines
\* CreateTag up to its call of bk.SaveTagPair: NewTagPair draws the random
\* tag, then the nonce source or the encryption may fail
UnitNewTagPair_SaveOnError ==
  \E u \in 1..Len(units) :
    /\ units[u].pc = "start"
    /\ \E d \in 1..MaxDraws, n \in 0..MaxNonce, encOk \in BOOLEAN :
         LET rand == RandomString(RANDOM_TAG_ALPHABET, RANDOM_TAG_LENGTH, d)
             plain == units[u].plain
         IN  IF n = 0
             THEN /\ encOk
                  /\ units' = [units EXCEPT ![u].pc = "send", ![u].err = "nonce"]
                  /\ saved' = saved
             ELSE IF ~encOk
             THEN /\ units' = [units EXCEPT ![u].pc = "send", ![u].err = "encrypt"]
                  /\ saved' = Append(saved, TypesNewTagPair(<< >>, rand, n, plain))
             ELSE /\ units' = [units EXCEPT ![u].pc = "saving",
                                  ![u].pair = TypesNewTagPair(Encrypt(plain, n, Key),
                                                              rand, n, plain)]
                  /\ saved' = saved
    /\ UNCHANGED << call, pairs, row, entry, pc, scan, recv, newPairs, err,
                    retErr, retTag, retPairs >>

UnitNewTagPair ==
  \E u \in 1..Len(units) :
    /\ units[u].pc = "start"
    /\ \E d \in 1..MaxDraws, n \in 0..MaxNonce, encOk \in BOOLEAN :
         LET rand == RandomString(RANDOM_TAG_ALPHABET, RANDOM_TAG_LENGTH, d)
             plain == units[u].plain
         IN  IF n = 0
             THEN /\ encOk
                  /\ units' = [units EXCEPT ![u].pc = "send", ![u].err = "nonce"]
             ELSE IF ~encOk
             THEN units' = [units EXCEPT ![u].pc = "send", ![u].err = "encrypt"]
             ELSE units' = [units EXCEPT ![u].pc = "saving",
                               ![u].pair = TypesNewTagPair(Encrypt(plain, n, Key),
                                                           rand, n, plain)]
    /\ UNCHANGED << call, pairs, row, entry, pc, scan, recv, newPairs, err,
                    retErr, retTag, retPairs, saved >>

\* bk.SaveTagPair(pair) returns to CreateTag, which returns to the goroutine
UnitSaveTagPair ==
  \E u \in 1..Len(units) :
    /\ units[u].pc = "saving"
    /\ \E saveFailed \in BOOLEAN :
         /\ saved' = IF saveFailed THEN saved ELSE Append(saved, units[u].pair)
         /\ units' = [units EXCEPT ![u].pc = "send",
                         ![u].val = CreateTagResult(units[u].pair, saveFailed),
                         ![u].err = IF saveFailed THEN "save" ELSE ""]
    /\ UNCHANGED << call, pairs, row, entry, pc, scan, recv, newPairs, err,
                    retErr, retTag, retPairs >>

\* ------------------------------------------------ CreateTagsFromPlain: drain
\* `p := <-chs[i]` meets the send of unit i on its unbuffered channel
Drain_NoWait ==
    /\ pc = "drain"
    /\ recv <= Len(units)
    /\ newPairs' = Aggregate(newPairs, units[recv].val)
    /\ units' = IF units[recv].pc = "send"
                THEN [units EXCEPT ![recv].pc = "done"] ELSE units
    /\ recv' = recv + 1
    /\ UNCHANGED << call, pairs, row, entry, pc, scan, err, retErr, retTag, retPairs,
                    saved >>

Drain_FirstChannel ==
    /\ pc = "drain"
    /\ recv <= Len(units)
    /\ units[1].pc = "send"
    /\ newPairs' = Aggregate(newPairs, units[1].val)
    /\ units' = [units EXCEPT ![1].pc = "done"]
    /\ recv' = recv + 1
    /\ UNCHANGED << call, pairs, row, entry, pc, scan, err, retErr, retTag, retPairs,
                    saved >>

Drain_InsideScan ==
    /\ pc \in {"scan", "drain"}
    /\ recv <= Len(units)
    /\ units[recv].pc = "send"
    /\ newPairs' = Aggregate(newPairs, units[recv].val)
    /\ units' = [units EXCEPT ![recv].pc = "done"]
    /\ recv' = recv + 1
    /\ UNCHANGED << call, pairs, row, entry, pc, scan, err, retErr, retTag, retPairs,
                    saved >>

Drain ==
    /\ pc = "drain"
    /\ recv <= Len(units)
    /\ units[recv].pc = "send"
    /\ newPairs' = Aggregate(newPairs, units[recv].val)
    /\ units' = [units EXCEPT ![recv].pc = "done"]
    /\ recv' = recv + 1
    /\ UNCHANGED << call, pairs, row, entry, pc, scan, err, retErr, retTag, retPairs,
                    saved >>

\* `return newPairs, nil`, then the error check of PopulateRowBeforeSave
CreateTagsFromPlainReturn ==
    /\ pc = "drain"
    /\ recv > Len(units)
    /\ err' = "nil"
    /\ IF err' /= "nil"
       THEN /\ retErr' = "CreateTagsFromPlain"
            /\ retPairs' = ReturnedPairs(newPairs, TRUE)
            /\ pc' = "done"
       ELSE /\ retErr' = retErr
            /\ retPairs' = retPairs
            /\ pc' = "resolve"
    /\ UNCHANGED << call, pairs, row, entry, scan, units, recv, newPairs,
                    retTag, saved >>

\* ---------------------------------------------------- PopulateRowBeforeSave
\* allTagPairs := append(pairs, newPairs...), the resolution loops and
\* row.RandomTags = randtags
SetRandomTags ==
    /\ pc = "resolve"
    /\ LET allTagPairs == pairs \o newPairs
           res == ResolveTags(row.plainTags, allTagPairs, 1, << >>)
       IN  IF res.err
           THEN /\ retErr' = "MissingTagPair"
                /\ retTag' = res.tag
                /\ retPairs' = ReturnedPairs(newPairs, TRUE)
                /\ pc' = "done"
                /\ row' = row
           ELSE /\ row' = [row EXCEPT !.RandomTags = res.randtags]
                /\ pc' = "encrypt"
                /\ UNCHANGED << retErr, retTag, retPairs >>
    /\ UNCHANGED << call, pairs, entry, scan, units, recv, newPairs, err, saved >>

\* cryptag.Encrypt(row.Decrypted(), row.Nonce, bk.Key()) and row.Encrypted
SetEncrypted ==
    /\ pc = "encrypt"
    /\ \E encOk \in BOOLEAN :
         IF encOk
         THEN /\ row' = [row EXCEPT !.Encrypted = Encrypt(row.decrypted, row.Nonce, Key)]
              /\ retErr' = "nil"
              /\ retPairs' = ReturnedPairs(newPairs, FALSE)
         ELSE /\ row' = row
              /\ retErr' = "Encrypt"
              /\ retPairs' = ReturnedPairs(newPairs, TRUE)
    /\ pc' = "done"
    /\ UNCHANGED << call, pairs, entry, scan, units, recv, newPairs, err,
                    retTag, saved >>

\* the caller populates the same row again with pairs ++ newPairs
SecondCall ==
    /\ pc = "done"
    /\ call = 1
    /\ retErr = "nil"
    /\ call' = 2
    /\ pairs' = pairs \o newPairs
    /\ entry' = [RandomTags |-> row.RandomTags, Encrypted |-> row.Encrypted,
                 saved |-> Len(saved)]
    /\ pc' = "scan"
    /\ scan' = 1
    /\ units' = << >>
    /\ recv' = 1
    /\ newPairs' = << >>
    /\ err' = "unset"
    /\ retErr' = "pending"
    /\ retTag' = ""
    /\ retPairs' = << >>
    /\ UNCHANGED << row, saved >>

Next ==
    \/ ScanLaunch
    \/ ScanSkip
    \/ ScanExit
    \/ UnitNewTagPair
    \/ UnitSaveTagPair
    \/ Drain
    \/ CreateTagsFromPlainReturn
    \/ SetRandomTags
    \/ SetEncrypted
    \/ SecondCall

Spec == Init /\ [][Next]_vars

\* One call of CreateTagsFromPlain on its own, for the termination claim:
\* knownPairs is empty or holds one pair for "work".
LiveInit ==
    /\ Init
    /\ \/ pairs = << >>
       \/ /\ Len(pairs) = 1
          /\ pairs[1].plain = "work"
          /\ pairs[1].Random = RandomString(RANDOM_TAG_ALPHABET, RANDOM_TAG_LENGTH, 1)

LiveNext ==
    \/ ScanLaunch
    \/ ScanSkip
    \/ ScanExit
    \/ UnitNewTagPair
    \/ UnitSaveTagPair
    \/ Drain
    \/ CreateTagsFromPlainReturn

\* the Go scheduler runs every runnable goroutine, and every CreateTag call
\* (nonce source, encryption, bk.SaveTagPair) returns
LiveSpec ==
    /\ LiveInit
    /\ [][LiveNext]_vars
    /\ WF_vars(ScanLaunch)
    /\ WF_vars(ScanSkip)
    /\ WF_vars(ScanExit)
    /\ WF_vars(UnitNewTagPair)
    /\ WF_vars(UnitSaveTagPair)
    /\ WF_vars(Drain)
    /\ WF_vars(CreateTagsFromPlainReturn)

\* --------------------------------------------------- vocabulary of the claims
\* CreateTagsFromPlain has returned to PopulateRowBeforeSave
CTFPReturned == pc \in {"resolve", "encrypt", "done"}

\* p is the plaintext of some pair of knownPairs
Known(p) == \E i \in 1..Len(pairs) : pairs[i].plain = p

\* p occurs in plaintags
Occurs(p) == \E i \in 1..Len(row.plainTags) : row.plainTags[i] = p

Occurrences(p) == Cardinality({ i \in 1..Len(row.plainTags) : row.plainTags[i] = p })

\* indices of the pairs of newPairs whose plaintext is p
PairsFor(p) == { i \in 1..Len(newPairs) : newPairs[i].plain = p }

\* units whose CreateTag returned an error
FailedUnits == { u \in 1..Len(units) : units[u].err /= "" }

FailedFor(p) == { u \in FailedUnits : units[u].plain = p }

AlphabetSymbols == { RANDOM_TAG_ALPHABET[i] : i \in 1..Len(RANDOM_TAG_ALPHABET) }

\* r is a string of 9 symbols of the 36-symbol alphabet
IsRandomTag(r) ==
    /\ Len(r) = 9
    /\ Cardinality(AlphabetSymbols) = 36
    /\ \A i \in 1..Len(r) : r[i] \in AlphabetSymbols

\* pairs the backend accepted since the running call was entered
SavedByCall == SubSeq(saved, entry.saved + 1, Len(saved))

Count(s, x) == Cardinality({ i \in 1..Len(s) : s[i] = x })

IsMissing(t) == ~Known(t)

UnitOk(un) == un.err = ""

\* knownPairs ++ newPairs
AllPairs == pairs \o newPairs

Unmatched(t) == \A j \in 1..Len(AllPairs) : AllPairs[j].plain /= t

\* ------------------------------------------------------------------------ C1
\* C1 (as stated): when CreateTagsFromPlain has returned, every plain tag of
\* plaintags that no pair of knownPairs covers has exactly one pair in
\* newPairs, and that pair's random tag is 9 symbols of the alphabet.
C1_ExactlyOnePair ==
    CTFPReturned =>
        \A p \in Tags : (Occurs(p) /\ ~Known(p)) =>
            /\ Cardinality(PairsFor(p)) = 1
            /\ \A i \in PairsFor(p) : IsRandomTag(newPairs[i].Random)

\* C1 (amended): newPairs holds one pair with plaintext p per occurrence of p
\* in plaintags whose unit did not fail (one when p occurs once and its unit
\* succeeds, none when it fails), each with a random tag of 9 alphabet symbols.
C1_OnePairPerSuccessfulUnit ==
    CTFPReturned =>
        \A p \in Tags : (Occurs(p) /\ ~Known(p)) =>
            /\ Cardinality(PairsFor(p)) = Occurrences(p) - Cardinality(FailedFor(p))
            /\ \A i \in PairsFor(p) : IsRandomTag(newPairs[i].Random)

C1_Witness ==
    /\ CTFPReturned
    /\ \E p \in Tags, q \in Tags :
          /\ Occurs(p) /\ ~Known(p) /\ Cardinality(PairsFor(p)) = 1
          /\ Occurs(q) /\ ~Known(q) /\ FailedFor(q) /= {} /\ PairsFor(q) = {}

\* ------------------------------------------------------------------------ C2
\* C2: no unit is launched, no pair is saved and no pair is returned for a
\* plain tag that knownPairs covers; with a known pair for "work" and
\* plaintags = ["work","2015"] at most one unit exists and it is for "2015".
C2_NoUnitForKnownTag ==
    /\ \A p \in Tags : Known(p) =>
          /\ \A u \in 1..Len(units) : units[u].plain /= p
          /\ \A i \in 1..Len(SavedByCall) : SavedByCall[i].plain /= p
          /\ PairsFor(p) = {}
    /\ (Known("work") /\ row.plainTags = << "work", "2015" >>) =>
          /\ Len(units) <= 1
          /\ \A u \in 1..Len(units) : units[u].plain = "2015"

C2_Witness ==
    /\ pc = "done"
    /\ call = 1
    /\ Known("work")
    /\ row.plainTags = << "work", "2015" >>
    /\ Len(units) = 1
    /\ Len(newPairs) = 1

\* ------------------------------------------------------------------------ C3
\* C3: the units are the missing tags in scan order, and the plaintexts of the
\* returned newPairs are those of the units that did not fail, in launch
\* order, whatever order the units completed in.
C3_OrderPreserved ==
    CTFPReturned =>
        /\ AllPlain(units) = SelectSeq(row.plainTags, IsMissing)
        /\ AllPlain(newPairs) = AllPlain(SelectSeq(units, UnitOk))

\* the backend accepted "2015" before "work", newPairs lists "work" first
C3_Witness ==
    /\ CTFPReturned
    /\ row.plainTags = << "work", "2015" >>
    /\ AllPlain(SavedByCall) = << "2015", "work" >>
    /\ AllPlain(newPairs) = << "work", "2015" >>

\* ------------------------------------------------------------------------ C4
\* C4: CreateTagsFromPlain returns a nil error whatever units failed, every
\* unit has been awaited, newPairs has one entry per unit that did not fail,
\* and PopulateRowBeforeSave never returns the wrapped CreateTagsFromPlain
\* error.
C4_ErrorAlwaysNil ==
    /\ retErr /= "CreateTagsFromPlain"
    /\ CTFPReturned =>
          /\ err = "nil"
          /\ \A u \in 1..Len(units) : units[u].pc = "done"
          /\ Len(newPairs) = Len(units) - Cardinality(FailedUnits)

C4_Witness ==
    /\ CTFPReturned
    /\ Len(units) >= 2
    /\ units[1].err /= ""
    /\ units[2].err = ""
    /\ Len(newPairs) = 1

\* ------------------------------------------------------------------------ C5
\* C5: when PopulateRowBeforeSave has returned and some plain tag of the row
\* has no pair in knownPairs ++ newPairs, it returned the missing-TagPair
\* error naming the first such tag and row.Encrypted is as it was at entry.
C5_MissingTagReported ==
    (pc = "done" /\ \E i \in 1..Len(row.plainTags) : Unmatched(row.plainTags[i])) =>
        /\ retErr = "MissingTagPair"
        /\ \E i \in 1..Len(row.plainTags) :
              /\ Unmatched(row.plainTags[i])
              /\ \A k \in 1..(i - 1) : ~Unmatched(row.plainTags[k])
              /\ retTag = row.plainTags[i]
        /\ row.Encrypted = entry.Encrypted

\* ------------------------------------------------------------------------ C6
\* C6: when PopulateRowBeforeSave returns without error, row.RandomTags is as
\* long as row.plainTags and its i-th entry is the random tag of a pair of
\* knownPairs ++ newPairs whose plaintext is the i-th plain tag.
C6_RandomTagsResolved ==
    retErr = "nil" =>
        /\ Len(row.RandomTags) = Len(row.plainTags)
        /\ \A i \in 1..Len(row.plainTags) :
              /\ i <= Len(row.RandomTags)
              /\ \E j \in 1..Len(AllPairs) :
                    /\ AllPairs[j].plain = row.plainTags[i]
                    /\ AllPairs[j].Random = row.RandomTags[i]

\* ------------------------------------------------------------------------ C7
\* C7: when PopulateRowBeforeSave has returned and a unit of the call failed,
\* it returned the missing-TagPair error naming a tag whose creation failed.
C7_FailedUnitAbortsRow ==
    (pc = "done" /\ FailedUnits /= {}) =>
        /\ retErr = "MissingTagPair"
        /\ \E u \in FailedUnits : units[u].plain = retTag

\* ------------------------------------------------------------------------ C8
\* C8: the second call, made after a successful first call with
\* knownPairs ++ newPairs, launches no unit, returns an empty newPairs and
\* leaves row.RandomTags as the first call set it.
C8_SecondCallIdempotent ==
    call = 2 =>
        /\ units = << >>
        /\ pc = "done" => /\ newPairs = << >>
                          /\ row.RandomTags = entry.RandomTags

\* ------------------------------------------------------------------------ C9
\* no unit of the scenario pairs = [], plaintags = ["work","2015"] failed
C9_Scenario ==
    /\ CTFPReturned
    /\ call = 1
    /\ pairs = << >>
    /\ row.plainTags = << "work", "2015" >>
    /\ FailedUnits = {}

\* C9 (as stated): any two pairs of newPairs have distinct random tags, and
\* the scenario returns 2 pairs for "work", "2015" in that order.
C9_DistinctRandomTags ==
    /\ CTFPReturned =>
          \A i \in 1..Len(newPairs), j \in 1..Len(newPairs) :
              i /= j => newPairs[i].Random /= newPairs[j].Random
    /\ C9_Scenario => AllPlain(newPairs) = << "work", "2015" >>

\* C9 (amended): the scenario returns 2 pairs with plaintexts "work", "2015"
\* in that order, each with a random tag of 9 alphabet symbols; the two random
\* tags are drawn independently and are not checked for distinctness.
C9_ScenarioTwoPairsInOrder ==
    C9_Scenario =>
        /\ Len(newPairs) = 2
        /\ AllPlain(newPairs) = << "work", "2015" >>
        /\ \A i \in 1..Len(newPairs) : IsRandomTag(newPairs[i].Random)

\* the scenario with both draws giving the same random tag
C9_Witness ==
    /\ C9_Scenario
    /\ Len(newPairs) = 2
    /\ newPairs[1].Random = newPairs[2].Random

\* ----------------------------------------------------------------------- C10
\* C10: a unit holds a pair to send only if the backend accepted that pair,
\* and when CreateTagsFromPlain has returned newPairs holds exactly the pairs
\* the backend accepted during the call, each as often as it was accepted.
C10_ReturnedIffPersisted ==
    /\ \A u \in 1..Len(units) :
          units[u].val /= NilPair => Count(SavedByCall, units[u].val) >= 1
    /\ CTFPReturned =>
          /\ \A i \in 1..Len(newPairs) :
                Count(newPairs, newPairs[i]) = Count(SavedByCall, newPairs[i])
          /\ \A i \in 1..Len(SavedByCall) :
                Count(newPairs, SavedByCall[i]) = Count(SavedByCall, SavedByCall[i])

C10_Witness ==
    /\ CTFPReturned
    /\ \E u \in 1..Len(units) : units[u].err = "save"
    /\ Len(newPairs) = 1
    /\ Len(SavedByCall) = 1

\* ----------------------------------------------------------------------- C11
\* no two pairs of s share a plaintext
UniquePlain(s) ==
    \A i \in 1..Len(s), j \in 1..Len(s) : i /= j => s[i].plain /= s[j].plain

\* C11: when knownPairs holds at most one pair per plaintext, then once
\* CreateTagsFromPlain has returned, knownPairs ++ newPairs and the pairs the
\* backend accepted during the call hold at most one pair per plaintext.
C11_UniquePlaintext ==
    (CTFPReturned /\ UniquePlain(pairs)) =>
        /\ UniquePlain(AllPairs)
        /\ UniquePlain(SavedByCall)

\* ----------------------------------------------------------------------- C12
\* units that are inside bk.SaveTagPair(pair)
InSaveTagPair == { u \in 1..Len(units) : units[u].pc = "saving" }

\* C12: the pair CreateTag hands to bk.SaveTagPair carries plainEncrypted,
\* random and nonce and nothing else, so not the cleartext tag.
C12_NoPlaintextToBackend ==
    \A u \in InSaveTagPair :
        DOMAIN units[u].pair = {"plainEnc", "Random", "nonce"}

\* ----------------------------------------------------------------------- C13
\* indices of the pairs of knownPairs ++ newPairs whose plaintext is t
Matches(t) == { j \in 1..Len(AllPairs) : AllPairs[j].plain = t }

FirstMatch(t) == CHOOSE j \in Matches(t) : \A k \in Matches(t) : j <= k

\* row.RandomTags has been assigned by the running call
RandomTagsSet == pc = "encrypt" \/ (pc = "done" /\ retErr \in {"nil", "Encrypt"})

\* C13: a plain tag with one or more matching pairs resolves to the random
\* tag of the first match in knownPairs ++ newPairs order, and the tag named
\* by the missing-TagPair error has no match at all (a match in the last
\* position counts).
C13_FirstMatchWins ==
    /\ RandomTagsSet =>
          \A i \in 1..Len(row.plainTags) :
              Matches(row.plainTags[i]) /= {} =>
                  /\ i <= Len(row.RandomTags)
                  /\ row.RandomTags[i] = AllPairs[FirstMatch(row.plainTags[i])].Random
    /\ (pc = "done" /\ retErr = "MissingTagPair") => Matches(retTag) = {}

\* a plain tag of the row has two pairs with different random tags, the
\* second of them in the last position, and resolves to the first one's
C13_Witness ==
    /\ RandomTagsSet
    /\ Len(AllPairs) >= 2
    /\ \E i \in 1..Len(row.plainTags) :
          LET t == row.plainTags[i] IN
          /\ Cardinality(Matches(t)) >= 2
          /\ Len(AllPairs) \in Matches(t)
          /\ AllPairs[Len(AllPairs)].Random /= AllPairs[FirstMatch(t)].Random
          /\ row.RandomTags[i] = AllPairs[FirstMatch(t)].Random

\* ----------------------------------------------------------------------- C14
\* units whose CreateTag call has not returned
InCreateTag == { u \in 1..Len(units) : units[u].pc \in {"start", "saving"} }

\* C14: while the CreateTag call of a unit has not returned,
\* CreateTagsFromPlain has not returned either, and no unit launched after
\* that one has got rid of its result: those that finished CreateTag are
\* still blocked in their send.
C14_StalledUnitBlocksBatch ==
    \A u \in InCreateTag :
        /\ ~CTFPReturned
        /\ recv <= u
        /\ \A v \in (u + 1)..Len(units) : units[v].pc /= "done"

\* unit 1 is inside bk.SaveTagPair, unit 2 has finished and waits in its send
C14_Witness ==
    /\ pc = "drain"
    /\ Len(units) >= 2
    /\ units[1].pc = "saving"
    /\ units[2].pc = "send"
    /\ units[2].val /= NilPair

\* ----------------------------------------------------------------------- C15
\* the tags of plaintags[1..n] that knownPairs does not cover, in order
MissingUpTo(n) == SelectSeq(SubSeq(row.plainTags, 1, n), IsMissing)

\* C15: one unit (and channel) exists per occurrence scanned so far of a tag
\* absent from knownPairs; nothing is received while the scan is running;
\* and the channels that have delivered their single value are exactly those
\* the draining loop has passed, one value each.
C15_OneUnitPerMissingOccurrence ==
    /\ AllPlain(units) = MissingUpTo(scan - 1)
    /\ pc = "scan" =>
          /\ recv = 1
          /\ newPairs = << >>
          /\ \A u \in 1..Len(units) : units[u].pc /= "done"
    /\ \A u \in 1..Len(units) : units[u].pc = "done" <=> u < recv
    /\ recv <= Len(units) + 1
    /\ Len(newPairs) <= recv - 1

\* two units for the same missing tag are inside bk.SaveTagPair at once
C15_Witness ==
    /\ Cardinality(InSaveTagPair) >= 2
    /\ row.plainTags = << "work", "work" >>
    /\ pc = "drain"
    /\ recv = 1

\* ----------------------------------------------------------------------- C16
\* units whose CreateTag failed before the backend was called
CryptoFailed == { u \in 1..Len(units) : units[u].err \in {"nonce", "encrypt"} }

\* units whose bk.SaveTagPair call returned without error
SaveSucceeded ==
    { u \in 1..Len(units) : units[u].pc \in {"send", "done"} /\ units[u].err = "" }

\* C16: a unit that failed in nonce generation or encryption holds no pair
\* and sends nil, and the backend has accepted exactly one pair per unit whose
\* SaveTagPair call succeeded: NewTagPair and the crypto failure paths leave
\* the backend's persisted pairs as they were.
C16_CryptoFailureSkipsBackend ==
    /\ \A u \in CryptoFailed :
          /\ units[u].pair = NilPair
          /\ units[u].val = NilPair
    /\ Len(SavedByCall) = Cardinality(SaveSucceeded)

\* one unit failed in nonce generation, the other in encryption, and the
\* backend has accepted nothing
C16_Witness ==
    /\ CTFPReturned
    /\ \E u \in CryptoFailed : units[u].err = "encrypt"
    /\ \E u \in CryptoFailed : units[u].err = "nonce"
    /\ Len(SavedByCall) = 0
    /\ Len(units) = 2

\* ----------------------------------------------------------------------- C17
\* C17: under weak fairness of the caller, the units and their CreateTag
\* calls, a running CreateTagsFromPlain eventually returns, and when it has
\* returned every unit has delivered its result and finished.
C17_BatchTerminates ==
    /\ [](pc \in {"scan", "drain"} => <>CTFPReturned)
    /\ [](CTFPReturned =>
            /\ recv = Len(units) + 1
            /\ \A u \in 1..Len(units) : units[u].pc = "done")

\* both units were blocked in their send and have been received in order
C17_Witness ==
    /\ CTFPReturned
    /\ Len(units) = 2
    /\ recv = 3
    /\ \A u \in 1..Len(units) : units[u].pc = "done"
    /\ AllPlain(SavedByCall) = << "2015", "work" >>

\* ----------------------------------------------------------------------- C18
\* row.RandomTags holds one entry per plain tag, each the random tag of a pair
\* of knownPairs ++ newPairs with that plaintext
FullyResolved ==
    /\ Len(row.RandomTags) = Len(row.plainTags)
    /\ \A i \in 1..Len(row.plainTags) :
          /\ i <= Len(row.RandomTags)
          /\ \E j \in Matches(row.plainTags[i]) : AllPairs[j].Random = row.RandomTags[i]

\* C18: on the missing-TagPair error row.RandomTags and row.Encrypted are as
\* at entry; on the payload encryption error row.Encrypted is as at entry
\* while row.RandomTags holds the fully resolved list; row.Encrypted differs
\* from its entry value only after success, with row.RandomTags resolved.
C18_ErrorPathFrames ==
    /\ (pc = "done" /\ retErr = "MissingTagPair") =>
          /\ row.RandomTags = entry.RandomTags
          /\ row.Encrypted = entry.Encrypted
    /\ (pc = "done" /\ retErr = "Encrypt") =>
          /\ row.Encrypted = entry.Encrypted
          /\ FullyResolved
    /\ row.Encrypted /= entry.Encrypted =>
          /\ pc = "done"
          /\ retErr = "nil"
          /\ FullyResolved

\* ----------------------------------------------------------------------- C19
\* C19: whatever PopulateRowBeforeSave returns (nil, the missing-TagPair
\* error or the encryption error), the newPairs it returns are those batch
\* creation produced, that is exactly the pairs the backend accepted during
\* the call.
C19_NewPairsReturnedOnEveryPath ==
    pc = "done" =>
        /\ retPairs = newPairs
        /\ \A i \in 1..Len(SavedByCall) :
              Count(retPairs, SavedByCall[i]) = Count(SavedByCall, SavedByCall[i])

\* the call failed with the missing-TagPair error after the backend accepted
\* a pair, and that pair is returned
C19_Witness ==
    /\ pc = "done"
    /\ retErr = "MissingTagPair"
    /\ Len(SavedByCall) = 1
    /\ retPairs = SavedByCall

====
